---- MODULE Spec2Model ----
(***************************************************************************)
(* Model of TigerPackageIo (crates/rrise/c/utilities/tiger_io_hook.cpp):   *)
(* the blocking low-level I/O hook that serves numeric-ID opens from an    *)
(* in-memory package store and name opens from the native file system.     *)
(*                                                                         *)
(* 64-bit unsigned values (uint64_t, AkUInt64, a 64-bit HANDLE) are kept   *)
(* at full width as four 16-bit limbs, least significant first, because    *)
(* the handle encoding and the range check of Read depend on bits 31..63   *)
(* and on wrap-around at 2^64.                                             *)
(***************************************************************************)
EXTENDS Integers, Sequences, FiniteSets, TLC

(***************************************************************************)
(* Bounds of the model.                                                    *)
(***************************************************************************)
\* number of Open calls (by id or by name) in one behaviour
MaxOpens == 2
\* number of Init calls in one behaviour
MaxInits == 2

(***************************************************************************)
(* Fixed-width unsigned arithmetic.                                        *)
(***************************************************************************)
LimbBase == 256 * 256
LimbMax == LimbBase - 1
Limbs == 1..4

\* uint64_t from a natural number below 2^31
U64(n) == <<n % LimbBase, n \div LimbBase, 0, 0>>

Zero64 == U64(0)

\* 2^64 - n for 1 <= n <= 2^16: the wrapped value of (uint64_t)(-n)
Neg64(n) == <<LimbBase - n, LimbMax, LimbMax, LimbMax>>

RECURSIVE BitAnd(_, _)
BitAnd(a, b) ==
    IF a = 0 \/ b = 0 THEN 0
    ELSE (a % 2) * (b % 2) + 2 * BitAnd(a \div 2, b \div 2)

RECURSIVE BitOr(_, _)
BitOr(a, b) ==
    IF a = 0 THEN b
    ELSE IF b = 0 THEN a
    ELSE (IF a % 2 = 1 \/ b % 2 = 1 THEN 1 ELSE 0) + 2 * BitOr(a \div 2, b \div 2)

\* x & y and x | y on uint64_t
And64(x, y) == [i \in Limbs |-> BitAnd(x[i], y[i])]
Or64(x, y) == [i \in Limbs |-> BitOr(x[i], y[i])]

\* carry into limb i of x + y
RECURSIVE Carry(_, _, _)
Carry(x, y, i) ==
    IF i = 1 THEN 0
    ELSE (x[i - 1] + y[i - 1] + Carry(x, y, i - 1)) \div LimbBase

\* x + y on uint64_t: the carry out of bit 63 is dropped
Add64(x, y) == [i \in Limbs |-> (x[i] + y[i] + Carry(x, y, i)) % LimbBase]

\* x < y on uint64_t
Lt64(x, y) ==
    \E i \in Limbs : x[i] < y[i] /\ \A j \in Limbs : j > i => x[j] = y[j]

\* the usual arithmetic conversion of a 32-bit int (two limbs, two's
\* complement) to uint64_t: sign extension
SignExtend(w) ==
    IF w[2] >= LimbBase \div 2
    THEN <<w[1], w[2], LimbMax, LimbMax>>
    ELSE <<w[1], w[2], 0, 0>>

\* ~w on a 32-bit int
Not32(w) == <<LimbMax - w[1], LimbMax - w[2]>>

(***************************************************************************)
(* Handle space: tiger_io_hook.cpp line 10 and its three uses.             *)
(***************************************************************************)
\* #define FILE_HANDLE_PACKAGE_BIT (1 << 31): an int whose only set bit is
\* the sign bit
FILE_HANDLE_PACKAGE_BIT == <<0, LimbBase \div 2>>

\* (AkFileHandle)(fileId | FILE_HANDLE_PACKAGE_BIT), fileId a uint64_t
EncodeHandle(fileId) == Or64(fileId, SignExtend(FILE_HANDLE_PACKAGE_BIT))

\* a hook that tests the handle against the complement of the flag
IsPackageHandle_Complement(uFile) ==
    And64(uFile, SignExtend(Not32(FILE_HANDLE_PACKAGE_BIT))) # Zero64

\* uFile & FILE_HANDLE_PACKAGE_BIT, as the condition of an if
IsPackageHandle(uFile) == And64(uFile, SignExtend(FILE_HANDLE_PACKAGE_BIT)) # Zero64

\* uFile & ~FILE_HANDLE_PACKAGE_BIT
DecodeKey(uFile) == And64(uFile, SignExtend(Not32(FILE_HANDLE_PACKAGE_BIT)))

(***************************************************************************)
(* Environment: the delivery source, the native file system, the Stream    *)
(* Manager.                                                                *)
(***************************************************************************)
AK_INVALID_DEVICE_ID == -1
SIZE_MAX == Neg64(1)

\* the asset ids a caller asks for
AssetIds == {16, 17, 18}

\* size_t ddumbe_get_wwise_file_size_by_id(uint32_t id)
ddumbe_get_wwise_file_size_by_id(id) ==
    CASE id = 16 -> U64(4)
      [] id = 18 -> U64(2)
      [] OTHER   -> SIZE_MAX

\* AKRESULT ddumbe_read_wwise_file_by_id(uint32_t id, void *buffer, size_t size):
\* the result and the bytes left in the buffer
ddumbe_read_wwise_file_by_id(id) ==
    CASE id = 16 -> [res |-> "AK_Success", bytes |-> <<1, 2, 3, 4>>]
      [] OTHER   -> [res |-> "AK_Fail", bytes |-> <<>>]

\* names handed to Open-by-name, and the length of the file behind each
\* (-1: CAkFileHelpers::OpenFile finds no such file)
FileNames == {"a.wem", "missing.wem"}
NativeFileSize(name) == IF name = "a.wem" THEN 3 ELSE -1

\* handle values CAkFileHelpers::OpenFile hands out: a HANDLE is an opaque
\* pointer-sized value whose low 32 bits are significant and sign-extended,
\* here 0x4 and 0xFFFFFFFF80000004
NativeHandles == {U64(4), <<4, LimbBase \div 2, LimbMax, LimbMax>>}

\* uSchedulerTypeFlags of AkDeviceSettings
SchedulerTypes == {"AK_SCHEDULER_BLOCKING", "AK_SCHEDULER_DEFERRED_LINED_UP"}

\* values the object's nondefault-initialised counter can hold when the
\* first Open runs: 0, 2^31 - 1, 2^64 - 1
CounterStarts == {Zero64, <<LimbMax, LimbBase \div 2 - 1, 0, 0>>, Neg64(1)}

\* uFilePosition values of a transfer (AkUInt64)
Positions == {U64(0), U64(1), Neg64(1)}
\* uRequestedSize values of a transfer (AkUInt32)
Sizes == {0, 2, 4}
\* uFilePosition values of a Write: the hook only passes the position on to
\* WriteFile in the OVERLAPPED offset, so one value stands for all
WritePositions == {U64(0)}
\* what a byte outside every owned buffer may hold
StrayBytes == {0, 255}

(***************************************************************************)
(* State.                                                                  *)
(***************************************************************************)
VARIABLES
    m_deviceID,           \* AkDeviceID m_deviceID
    m_packageFiles,       \* unordered_map<uint64_t, vector<uint8_t>>
    m_nextPackageFileID,  \* uint64_t m_nextPackageFileID
    resolver,             \* Stream Manager: the registered File Location Resolver
    devices,              \* Stream Manager: the devices created and not destroyed
    deviceCount,          \* Stream Manager: number of CreateDevice calls so far
    osFiles,              \* native file system: open handle -> file name
    descs,                \* descriptors returned to the caller, oldest first
    last                  \* the most recent call, its arguments and its outcome

vars == <<m_deviceID, m_packageFiles, m_nextPackageFileID, resolver, devices,
          deviceCount, osFiles, descs, last>>

hook == <<m_deviceID, m_packageFiles, m_nextPackageFileID>>
streamMgr == <<resolver, devices, deviceCount>>

NoOs == [fn |-> "none", hFile |-> Zero64, ok |-> FALSE, moved |-> 0]
NoDesc == [hFile |-> Zero64, iFileSize |-> Zero64, uSector |-> 0, deviceID |-> AK_INVALID_DEVICE_ID]

\* the record of a call: op and res say which call and what it returned,
\* id/d/size are its arguments (pos too where the hook itself looks at the
\* position), out the bytes stored in the caller's buffer, os the native
\* call it issued, fd the descriptor it filled in, asserted whether an
\* AKASSERT condition was false on the way, stray whether it touched memory
\* it does not own
Call(op, res) ==
    [op |-> op, res |-> res, id |-> 0, d |-> 0, pos |-> Zero64, size |-> 0,
     out |-> <<>>, stray |-> FALSE, os |-> NoOs, fd |-> NoDesc,
     asserted |-> FALSE, sched |-> "none"]

\* the process is gone after an access violation
Running == last.res # "AccessViolation"

Init ==
    /\ m_deviceID = AK_INVALID_DEVICE_ID
    /\ m_packageFiles = <<>>
    /\ m_nextPackageFileID \in CounterStarts
    /\ resolver = "NULL"
    /\ devices = {}
    /\ deviceCount = 0
    /\ osFiles = <<>>
    /\ descs = <<>>
    /\ last = Call("none", "none")

(***************************************************************************)
(* Lifecycle: Init and Term.                                               *)
(***************************************************************************)
\* AK::StreamMgr::CreateDevice: a fresh device identity, or the invalid one
CreateDeviceResults == {deviceCount + 1, AK_INVALID_DEVICE_ID}

\* a hook that registers itself unconditionally
InitResolver_Always(current) == "this"

\* the resolver registered once Init has passed its scheduler check
InitResolver(current) == IF current = "NULL" THEN "this" ELSE current

\* what Init returns once CreateDevice has returned id
InitResult(id) == IF id # AK_INVALID_DEVICE_ID THEN "AK_Success" ELSE "AK_Success"

\* a hook that lets every scheduler type through
SchedulerAccepted_Any(sched) == TRUE

\* may Init go on to register and create a device with these flags
SchedulerAccepted(sched) == sched = "AK_SCHEDULER_BLOCKING"

TigerPackageIo_Init(sched) ==
    /\ Running
    /\ deviceCount < MaxInits
    /\ IF ~SchedulerAccepted(sched)
       THEN /\ last' = [Call("Init", "AK_Fail") EXCEPT !.sched = sched, !.asserted = TRUE]
            /\ UNCHANGED <<hook, streamMgr, osFiles, descs>>
       ELSE \E id \in CreateDeviceResults :
            /\ resolver' = InitResolver(resolver)
            /\ devices' = IF id = AK_INVALID_DEVICE_ID THEN devices ELSE devices \cup {id}
            /\ deviceCount' = deviceCount + 1
            /\ m_deviceID' = id
            /\ last' = [Call("Init", InitResult(id)) EXCEPT !.sched = sched]
            /\ UNCHANGED <<m_packageFiles, m_nextPackageFileID, osFiles, descs>>

\* a hook that clears the registration unconditionally
TermResolver_Always(current) == "NULL"

\* the resolver registered after Term
TermResolver(current) == IF current = "this" THEN "NULL" ELSE current

Term ==
    /\ Running
    /\ resolver' = TermResolver(resolver)
    /\ devices' = devices \ {m_deviceID}
    /\ last' = Call("Term", "void")
    /\ UNCHANGED <<hook, deviceCount, osFiles, descs>>

\* another component of the host registers its own resolver, superseding
\* whichever is registered, or withdraws it
\* (AK::StreamMgr::SetFileLocationResolver is a process-wide setter)
OtherResolver ==
    /\ Running
    /\ resolver' = IF resolver = "other" THEN "NULL" ELSE "other"
    /\ last' = Call("SetFileLocationResolver", "void")
    /\ UNCHANGED <<hook, devices, deviceCount, osFiles, descs>>

(***************************************************************************)
(* File Resolver: the two Open overloads.                                  *)
(***************************************************************************)
\* what the caller keeps of a successful Open: the descriptor fd, and for
\* the properties which overload made it, under which key its buffer was
\* stored, the bytes fetched, and whether Close has been called on it
Issued(fd, via, fileId, data) ==
    [fd |-> fd, via |-> via, fileId |-> fileId, data |-> data, closed |-> FALSE]

\* the descriptor Open-by-name fills in
NameDesc(hFile, size, deviceID) ==
    [hFile |-> hFile, iFileSize |-> U64(size), uSector |-> 0, deviceID |-> deviceID]

OpenByName(name, flagsGiven) ==
    /\ Running
    /\ Len(descs) < MaxOpens
    /\ \/ \* in_pFlags->uCacheID with in_pFlags == NULL
          /\ ~flagsGiven
          /\ last' = [Call("OpenByName", "AccessViolation") EXCEPT !.stray = TRUE]
          /\ UNCHANGED <<hook, streamMgr, osFiles, descs>>
       \/ \* CAkFileHelpers::OpenFile fails
          /\ NativeFileSize(name) < 0 \/ NativeHandles \subseteq DOMAIN osFiles
          /\ last' = [Call("OpenByName", "AK_FileNotFound") EXCEPT !.stray = ~flagsGiven]
          /\ UNCHANGED <<hook, streamMgr, osFiles, descs>>
       \/ \* CAkFileHelpers::OpenFile succeeds with handle h
          /\ NativeFileSize(name) >= 0
          /\ \E h \in NativeHandles \ DOMAIN osFiles :
             LET fd == NameDesc(h, NativeFileSize(name), m_deviceID) IN
             /\ osFiles' = osFiles @@ (h :> name)
             /\ descs' = Append(descs, Issued(fd, "name", Zero64, <<>>))
             /\ last' = [Call("OpenByName", "AK_Success") EXCEPT
                            !.fd = fd, !.d = Len(descs) + 1, !.stray = ~flagsGiven]
          /\ UNCHANGED <<hook, streamMgr>>

\* this->m_nextPackageFileID++ : the value the counter holds afterwards
NextFileId(fileId) == Add64(fileId, U64(1))

\* this->m_packageFiles[fileId] = buffer
StoreInsert(files, fileId, buffer) ==
    [k \in DOMAIN files \cup {fileId} |-> IF k = fileId THEN buffer ELSE files[k]]

\* the descriptor Open-by-id fills in
IdDesc(fileId, size, deviceID) ==
    [hFile |-> EncodeHandle(fileId), iFileSize |-> size, uSector |-> 0, deviceID |-> deviceID]

\* a hook that takes its key before it fetches
FailedOpenCounter_Advanced(counter) == NextFileId(counter)

\* the counter after an Open-by-id that returned early
FailedOpenCounter(counter) == counter

OpenById(id) ==
    /\ Running
    /\ Len(descs) < MaxOpens
    /\ LET size == ddumbe_get_wwise_file_size_by_id(id)
           fetch == ddumbe_read_wwise_file_by_id(id)
           fileId == m_nextPackageFileID
           fd == IdDesc(fileId, size, m_deviceID)
       IN  IF size = SIZE_MAX
           THEN /\ last' = [Call("OpenById", "AK_FileNotFound") EXCEPT !.id = id]
                /\ m_nextPackageFileID' = FailedOpenCounter(m_nextPackageFileID)
                /\ UNCHANGED <<m_deviceID, m_packageFiles, streamMgr, osFiles, descs>>
           ELSE IF fetch.res # "AK_Success"
           THEN /\ last' = [Call("OpenById", "AK_Fail") EXCEPT !.id = id]
                /\ m_nextPackageFileID' = FailedOpenCounter(m_nextPackageFileID)
                /\ UNCHANGED <<m_deviceID, m_packageFiles, streamMgr, osFiles, descs>>
           ELSE /\ m_nextPackageFileID' = NextFileId(fileId)
                /\ m_packageFiles' = StoreInsert(m_packageFiles, fileId, fetch.bytes)
                /\ descs' = Append(descs, Issued(fd, "id", fileId, fetch.bytes))
                /\ last' = [Call("OpenById", "AK_Success") EXCEPT
                               !.id = id, !.fd = fd, !.d = Len(descs) + 1]
                /\ UNCHANGED <<m_deviceID, streamMgr, osFiles>>

(***************************************************************************)
(* Transfer Engine: Read and Write.                                        *)
(***************************************************************************)
\* buffer.size() as a size_t
Size64(buffer) == U64(Len(buffer))

\* a uint64_t below 2^31 as a number
Small(x) == x[1] + x[2] * LimbBase

\* the byte memcpy finds at buffer.data() + off: the buffer's own byte
\* inside the buffer, anything outside it
ByteAt(buffer, off) ==
    IF Lt64(off, Size64(buffer)) THEN {buffer[Small(off) + 1]} ELSE StrayBytes

\* memcpy(out_pBuffer, buffer.data() + pos, n): the byte strings it can
\* leave in out_pBuffer
RECURSIVE Copies(_, _, _)
Copies(buffer, pos, n) ==
    IF n = 0 THEN {<<>>}
    ELSE {Append(s, b) : s \in Copies(buffer, pos, n - 1),
                         b \in ByteAt(buffer, Add64(pos, U64(n - 1)))}

\* does that memcpy touch a byte outside the buffer
Strays(buffer, pos, n) ==
    \E i \in 0..(n - 1) : ~Lt64(Add64(pos, U64(i)), Size64(buffer))

\* uFilePosition + uRequestedSize > buffer.size(), evaluated in uint64_t
RangeRejected(buffer, pos, n) == Lt64(Size64(buffer), Add64(pos, U64(n)))

\* outcomes of the package branch of Read
PackageRead(files, uFile, pos, n) ==
    LET fileId == DecodeKey(uFile) IN
    IF fileId \notin DOMAIN files
    THEN {[res |-> "AK_Fail", out |-> <<>>, stray |-> FALSE]}
    ELSE IF RangeRejected(files[fileId], pos, n)
    THEN {[res |-> "AK_Fail", out |-> <<>>, stray |-> FALSE]}
    ELSE IF Strays(files[fileId], pos, n)
    THEN {[res |-> "AK_Success", out |-> s, stray |-> TRUE] :
              s \in Copies(files[fileId], pos, n)}
         \cup {[res |-> "AccessViolation", out |-> <<>>, stray |-> TRUE]}
    ELSE {[res |-> "AK_Success", out |-> s, stray |-> FALSE] :
              s \in Copies(files[fileId], pos, n)}

\* ::ReadFile / ::WriteFile on hFile for n bytes: whether the call reports
\* success and the byte count it reports
NativeTransfers(fn, hFile, n) ==
    IF hFile \notin DOMAIN osFiles
    THEN {[fn |-> fn, hFile |-> hFile, ok |-> FALSE, moved |-> 0]}
    ELSE {[fn |-> fn, hFile |-> hFile, ok |-> FALSE, moved |-> 0]}
         \cup {[fn |-> fn, hFile |-> hFile, ok |-> TRUE, moved |-> m] : m \in 0..n}

\* what Read and Write return after the native call os for n bytes
TransferResult(os, n) == IF os.ok THEN "AK_Success" ELSE "AK_Fail"

\* AKASSERT(uSizeTransferred == io_transferInfo.uRequestedSize) fails
ShortTransfer(os, n) == os.ok /\ os.moved # n

INVALID_HANDLE_VALUE == Neg64(1)

\* a hook that looks the key up with m_packageFiles[fileId], which inserts
\* an empty buffer for a key that is absent
StoreAfterFind_Subscript(files, fileId) ==
    IF fileId \in DOMAIN files THEN files
    ELSE [k \in DOMAIN files \cup {fileId} |-> IF k = fileId THEN <<>> ELSE files[k]]

\* the Package Store after this->m_packageFiles.find(fileId)
StoreAfterFind(files, fileId) == files

Read(d, pos, n) ==
    /\ Running
    /\ LET uFile == descs[d].fd.hFile IN
       IF IsPackageHandle(uFile)
       THEN /\ \E r \in PackageRead(m_packageFiles, uFile, pos, n) :
               last' = [Call("Read", r.res) EXCEPT
                           !.d = d, !.pos = pos, !.size = n, !.out = r.out, !.stray = r.stray]
            /\ m_packageFiles' = StoreAfterFind(m_packageFiles, DecodeKey(uFile))
       ELSE /\ \E os \in NativeTransfers("ReadFile", uFile, n) :
               last' = [Call("Read", TransferResult(os, n)) EXCEPT
                           !.d = d, !.size = n, !.os = os,
                           !.asserted = ShortTransfer(os, n)]
            /\ m_packageFiles' = m_packageFiles
    /\ UNCHANGED <<m_deviceID, m_nextPackageFileID, streamMgr, osFiles, descs>>

\* may Write hand this handle to ::WriteFile
WriteAllowed(uFile) == TRUE

Write(d, pos, n) ==
    /\ Running
    /\ LET uFile == descs[d].fd.hFile IN
       IF WriteAllowed(uFile)
       THEN \E os \in NativeTransfers("WriteFile", uFile, n) :
            last' = [Call("Write", TransferResult(os, n)) EXCEPT
                        !.d = d, !.size = n, !.os = os,
                        !.asserted = uFile = INVALID_HANDLE_VALUE \/ ShortTransfer(os, n)]
       ELSE last' = [Call("Write", "AK_Fail") EXCEPT !.d = d, !.size = n]
    /\ UNCHANGED <<hook, streamMgr, osFiles, descs>>

(***************************************************************************)
(* Close.                                                                  *)
(***************************************************************************)
\* this->m_packageFiles.erase(fileId)
StoreErase(files, fileId) == [k \in DOMAIN files \ {fileId} |-> files[k]]

\* CAkFileHelpers::CloseFile(hFile)
CloseFile(files, hFile) == [k \in DOMAIN files \ {hFile} |-> files[k]]

Close(d) ==
    /\ Running
    /\ LET uFile == descs[d].fd.hFile IN
       IF IsPackageHandle(uFile)
       THEN /\ m_packageFiles' = StoreErase(m_packageFiles, DecodeKey(uFile))
            /\ osFiles' = osFiles
            /\ last' = [Call("Close", "AK_Success") EXCEPT !.d = d]
       ELSE /\ osFiles' = CloseFile(osFiles, uFile)
            /\ m_packageFiles' = m_packageFiles
            /\ last' = [Call("Close", IF uFile \in DOMAIN osFiles THEN "AK_Success" ELSE "AK_Fail")
                           EXCEPT !.d = d,
                                  !.os = [fn |-> "CloseHandle", hFile |-> uFile,
                                          ok |-> uFile \in DOMAIN osFiles, moved |-> 0]]
    /\ descs' = [descs EXCEPT ![d].closed = TRUE]
    /\ UNCHANGED <<m_deviceID, m_nextPackageFileID, streamMgr>>

(***************************************************************************)
(* Two environments.  Spec: a caller that opens, transfers and closes, in  *)
(* any order and with stale descriptors too.  LifecycleSpec: a host that   *)
(* initialises and terminates the hook while assets are opened and closed. *)
(* Init and Term touch m_deviceID and the Stream Manager only; the         *)
(* transfers touch neither.                                                *)
(***************************************************************************)
Next ==
    \/ \E name \in FileNames, flagsGiven \in BOOLEAN : OpenByName(name, flagsGiven)
    \/ \E id \in AssetIds : OpenById(id)
    \/ \E d \in DOMAIN descs, pos \in Positions, n \in Sizes : Read(d, pos, n)
    \/ \E d \in DOMAIN descs, pos \in WritePositions, n \in Sizes : Write(d, pos, n)
    \/ \E d \in DOMAIN descs : Close(d)

Spec == Init /\ [][Next]_vars

LifecycleNext ==
    \/ \E sched \in SchedulerTypes : TigerPackageIo_Init(sched)
    \/ Term
    \/ OtherResolver
    \/ \E id \in AssetIds : OpenById(id)
    \/ \E d \in DOMAIN descs : Close(d)

LifecycleSpec == Init /\ [][LifecycleNext]_vars

(***************************************************************************)
(* A long run.  From a counter of 0, Open-by-id of asset 16 followed by    *)
(* 2^31 - 1 further Open-by-id / Close pairs (keys 1 .. 2^31 - 1, each     *)
(* erased again by its Close) leaves the first buffer in the store, its    *)
(* descriptor with the caller, and the counter at 2^31.  LongRunSpec takes *)
(* the calls of Spec on from there.                                        *)
(***************************************************************************)
LongRunCounter == <<0, LimbBase \div 2, 0, 0>>

LongRunInit ==
    /\ m_deviceID = AK_INVALID_DEVICE_ID
    /\ m_packageFiles = StoreInsert(<<>>, Zero64, ddumbe_read_wwise_file_by_id(16).bytes)
    /\ m_nextPackageFileID = LongRunCounter
    /\ resolver = "NULL"
    /\ devices = {}
    /\ deviceCount = 0
    /\ osFiles = <<>>
    /\ descs = <<Issued(IdDesc(Zero64, ddumbe_get_wwise_file_size_by_id(16), m_deviceID),
                        "id", Zero64, ddumbe_read_wwise_file_by_id(16).bytes)>>
    /\ last = Call("none", "none")

LongRunSpec == LongRunInit /\ [][Next]_vars

(***************************************************************************)
(* Properties.                                                             *)
(***************************************************************************)
\* descriptor d came from Open-by-id / is one the caller has not closed
Virtual(d) == descs[d].via = "id"
Live(d) == ~descs[d].closed

\* pos + n > S over the integers, pos a uint64_t
Exceeds(pos, n, S) ==
    \/ (pos[4] + Carry(pos, U64(n), 4)) \div LimbBase = 1
    \/ Lt64(U64(S), Add64(pos, U64(n)))

\* C1: a Read on a virtual descriptor that has not been closed, with
\* position + size within the fetched length, succeeds and stores exactly
\* the fetched bytes position .. position + size - 1 in the output buffer,
\* whatever value the key counter started from.
C1_ReadReturnsFetchedBytes ==
    (/\ last.op = "Read"
     /\ Virtual(last.d)
     /\ Live(last.d)
     /\ ~Exceeds(last.pos, last.size, Len(descs[last.d].data)))
    => /\ last.res = "AK_Success"
       /\ last.out = SubSeq(descs[last.d].data, Small(last.pos) + 1,
                            Small(last.pos) + last.size)

\* C2: a Read on an open virtual descriptor whose position + size exceeds
\* the buffer length as integers fails, stores nothing in the output buffer
\* and touches no byte outside the buffer.
C2_ReadOutOfRangeFails ==
    (/\ last.op = "Read"
     /\ Virtual(last.d)
     /\ Live(last.d)
     /\ Exceeds(last.pos, last.size, Len(descs[last.d].data)))
    => /\ last.res = "AK_Fail"
       /\ last.out = <<>>
       /\ ~last.stray

\* C3: handle round trip: for every key the counter has handed out, the
\* handle Open-by-id made of it tests as a package handle and decodes, the
\* way Read and Close decode, to that key.
C3_HandleRoundTrip ==
    \A d \in DOMAIN descs :
        Virtual(d) =>
            /\ IsPackageHandle(EncodeHandle(descs[d].fileId))
            /\ DecodeKey(EncodeHandle(descs[d].fileId)) = descs[d].fileId

\* C4: of two successful Open-by-id calls the later one is assigned a
\* strictly greater key.
C4_KeysIncrease ==
    \A d, e \in DOMAIN descs :
        (d < e /\ Virtual(d) /\ Virtual(e)) => Lt64(descs[d].fileId, descs[e].fileId)

\* C5: once a virtual descriptor is closed its own store entry is gone and
\* the entries of the virtual descriptors still open are all there, and a
\* Read through the closed descriptor fails.
C5_CloseRemovesEntry ==
    /\ \A d \in DOMAIN descs :
          Virtual(d) => (Live(d) <=> descs[d].fileId \in DOMAIN m_packageFiles)
    /\ (last.op = "Read" /\ Virtual(last.d) /\ ~Live(last.d)) => last.res = "AK_Fail"

\* C6: an Init whose scheduler type is not the blocking one returns failure
\* and leaves the hook and the Stream Manager as they were: no device is
\* created, m_deviceID keeps its value, the resolver registration is kept.
C6_InitRejectsNonBlocking ==
    [][(last'.op = "Init" /\ last'.sched # "AK_SCHEDULER_BLOCKING")
          => /\ last'.res = "AK_Fail"
             /\ UNCHANGED <<hook, streamMgr, osFiles, descs>>]_vars

\* a rejected Init on a hook that was never initialised before
C6_Witness ==
    /\ last.op = "Init"
    /\ last.sched = "AK_SCHEDULER_DEFERRED_LINED_UP"
    /\ last.res = "AK_Fail"
    /\ m_deviceID = AK_INVALID_DEVICE_ID
    /\ devices = {}
    /\ resolver = "NULL"

\* C7: a native Read or Write whose OS call reports a byte count different
\* from the requested size does not return success.
C7_FullTransferOrFail ==
    (/\ last.op \in {"Read", "Write"}
     /\ last.os.fn \in {"ReadFile", "WriteFile"}
     /\ ~IsPackageHandle(descs[last.d].fd.hFile)
     /\ last.os.moved # last.size)
    => last.res # "AK_Success"

\* C8: a Write on a package-flagged descriptor fails without handing the
\* handle to a native write, and the Package Store keeps its entries.
C8_WriteOnPackageRejected ==
    (last.op = "Write" /\ IsPackageHandle(descs[last.d].fd.hFile))
    => /\ last.res = "AK_Fail"
       /\ last.os.fn = "none"

\* C9: the descriptor of a successful Open-by-id has a package-flagged
\* handle that decodes to the key just inserted in the Package Store, the
\* size the delivery source reported, sector size 1 and the hook's device
\* identity.
C9_OpenByIdDescriptor ==
    (last.op = "OpenById" /\ last.res = "AK_Success")
    => /\ IsPackageHandle(last.fd.hFile)
       /\ DecodeKey(last.fd.hFile) = descs[last.d].fileId
       /\ DecodeKey(last.fd.hFile) \in DOMAIN m_packageFiles
       /\ last.fd.iFileSize = ddumbe_get_wwise_file_size_by_id(last.id)
       /\ last.fd.uSector = 1
       /\ last.fd.deviceID = m_deviceID

\* C10: an Open-by-id for which the delivery source reports the unknown
\* size returns AK_FileNotFound, one whose fetch reports an error returns
\* AK_Fail, and either leaves the Package Store, the key counter and every
\* other variable as they were.
C10_FailedOpenChangesNothing ==
    [][(last'.op = "OpenById"
          /\ \/ ddumbe_get_wwise_file_size_by_id(last'.id) = SIZE_MAX
             \/ ddumbe_read_wwise_file_by_id(last'.id).res # "AK_Success")
          => /\ last'.res = IF ddumbe_get_wwise_file_size_by_id(last'.id) = SIZE_MAX
                            THEN "AK_FileNotFound" ELSE "AK_Fail"
             /\ UNCHANGED <<hook, streamMgr, osFiles, descs>>]_vars

\* a fetch failure while the Package Store holds an entry
C10_Witness ==
    /\ last.op = "OpenById"
    /\ last.res = "AK_Fail"
    /\ DOMAIN m_packageFiles # {}

\* C11: an Init that passes the scheduler check leaves a resolver that is
\* already registered in place and registers this hook when none is; a
\* rejected Init leaves the registration alone too.
C11_FirstRegistrantWins ==
    [][last'.op = "Init"
          => /\ resolver # "NULL" => resolver' = resolver
             /\ (resolver = "NULL" /\ last'.res = "AK_Success") => resolver' = "this"]_vars

\* an Init that succeeded while another component's resolver was registered
C11_Witness ==
    /\ last.op = "Init"
    /\ last.res = "AK_Success"
    /\ m_deviceID # AK_INVALID_DEVICE_ID
    /\ resolver = "other"

\* C12: Term clears the resolver registration when it is this hook, leaves
\* it as it is when it is another object or none, and either way destroys
\* the device entry m_deviceID names and no other.
C12_TermUnregistersOnlyItself ==
    [][last'.op = "Term"
          => /\ resolver = "this" => resolver' = "NULL"
             /\ resolver # "this" => resolver' = resolver
             /\ devices' = devices \ {m_deviceID}]_vars

\* a Term that destroyed the hook's device while another component's
\* resolver stayed registered
C12_Witness ==
    /\ last.op = "Term"
    /\ resolver = "other"
    /\ m_deviceID # AK_INVALID_DEVICE_ID
    /\ m_deviceID \notin devices
    /\ deviceCount > 0

\* the hook holds a device that the Stream Manager still has
Active == m_deviceID # AK_INVALID_DEVICE_ID /\ m_deviceID \in devices

\* C13: while the hook is Active no call other than Term creates a device
\* entry or changes m_deviceID (a second Init is not accepted), and a
\* descriptor opened meanwhile carries that identity.
C13_DeviceIdentityAssignedOnce ==
    [][(Active /\ last'.op # "Term")
          => /\ m_deviceID' = m_deviceID
             /\ devices' = devices
             /\ (last'.op = "OpenById" /\ last'.res = "AK_Success")
                    => last'.fd.deviceID = m_deviceID]_vars

\* C19: an Init that returns AK_Success has obtained a valid device
\* identity from CreateDevice.
C19_InitSuccessMeansDevice ==
    (last.op = "Init" /\ last.res = "AK_Success") => m_deviceID # AK_INVALID_DEVICE_ID

\* C14: the keys of the Package Store are exactly the keys under which the
\* virtual descriptors opened and not yet closed were stored, so nothing
\* is left once every descriptor is closed.
C14_StoreMatchesOpenDescriptors ==
    DOMAIN m_packageFiles =
        {descs[d].fileId : d \in {e \in DOMAIN descs : Virtual(e) /\ Live(e)}}

\* C16: Read and Close take the package path (no native call) exactly for
\* the descriptors Open-by-id produced, whatever handle value the OS gave
\* an Open-by-name descriptor.
C16_RoutingFollowsOrigin ==
    last.op \in {"Read", "Close"} => (last.os.fn = "none" <=> Virtual(last.d))

\* none of bits 31..63 of the handle is set
LowHandle(uFile) == uFile[2] < LimbBase \div 2 /\ uFile[3] = 0 /\ uFile[4] = 0

\* C16 as amended: Read and Close take the package path for every
\* descriptor Open-by-id produced, and the native path for every
\* descriptor Open-by-name produced whose handle has bits 31..63 clear.
C16_RoutingFollowsHandleBits ==
    last.op \in {"Read", "Close"}
    => /\ Virtual(last.d) => last.os.fn = "none"
       /\ (~Virtual(last.d) /\ LowHandle(descs[last.d].fd.hFile)) => last.os.fn # "none"

\* a Read on an Open-by-name descriptor that went to ::ReadFile while a
\* virtual descriptor is open as well
C16_Witness ==
    /\ last.op = "Read"
    /\ ~Virtual(last.d)
    /\ LowHandle(descs[last.d].fd.hFile)
    /\ last.os.fn = "ReadFile"
    /\ \E d \in DOMAIN descs : Virtual(d) /\ Live(d)

\* C17: a Close on a package-flagged descriptor whose key is not in the
\* Package Store leaves the store and the key counter as they were and does
\* not return success.
C17_CloseAbsentKeyNotFound ==
    [][(/\ last'.op = "Close"
        /\ IsPackageHandle(descs[last'.d].fd.hFile)
        /\ DecodeKey(descs[last'.d].fd.hFile) \notin DOMAIN m_packageFiles)
          => /\ m_packageFiles' = m_packageFiles
             /\ m_nextPackageFileID' = m_nextPackageFileID
             /\ last'.res # "AK_Success"]_vars

\* C18: a Read on a package descriptor, successful or not, leaves the
\* Package Store (keys and contents), the key counter and everything else
\* but the caller's buffer as they were.
C18_ReadChangesNothing ==
    [][(last'.op = "Read" /\ IsPackageHandle(descs[last'.d].fd.hFile))
          => UNCHANGED <<hook, streamMgr, osFiles, descs>>]_vars

\* a failed Read through a closed descriptor while another descriptor's
\* buffer is in the store
C18_Witness ==
    /\ last.op = "Read"
    /\ Virtual(last.d)
    /\ ~Live(last.d)
    /\ last.res = "AK_Fail"
    /\ DOMAIN m_packageFiles # {}

\* C20: Open-by-name with the flags argument absent reads nothing through
\* the absent pointer and ends as it does with flags present.
C20_OpenByNameNullFlags ==
    last.op = "OpenByName" => (~last.stray /\ last.res # "AccessViolation")

\* C15: two distinct virtual descriptors that are both open have distinct
\* handle values, and the handle of one virtual descriptor never decodes to
\* the key of a store entry that a different Open created.
C15_NoHandleAliasing ==
    \A d, e \in DOMAIN descs :
        (d # e /\ Virtual(d) /\ Virtual(e))
        => /\ (Live(d) /\ Live(e)) => descs[d].fd.hFile # descs[e].fd.hFile
           /\ descs[e].fileId \in DOMAIN m_packageFiles
                  => DecodeKey(descs[d].fd.hFile) # descs[e].fileId

====
